---- MODULE Spec2Model ----
(***************************************************************************)
(* Model of the Medium blog migrator (src/migrator/index.js).              *)
(*                                                                         *)
(* Text is a sequence of one-character strings.  The regular expressions   *)
(* of the source are written as patterns (sequences of items) and matched  *)
(* by a backtracking matcher with the greedy-first priorities of the       *)
(* JavaScript engine.                                                      *)
(***************************************************************************)
EXTENDS Integers, Sequences, FiniteSets, TLC

(***************************************************************************)
(* Characters                                                              *)
(***************************************************************************)

\* Characters matched by the class [a-z0-9-_] of handleLiquidClasses.
ClassChars ==
  {"a", "b", "c", "d", "e", "f", "g", "h", "i", "j", "k", "l", "m", "n", "o",
   "p", "q", "r", "s", "t", "u", "v", "w", "x", "y", "z", "0", "1", "2", "3",
   "4", "5", "6", "7", "8", "9", "-", "_"}

\* The backtick character (written by name: the module's lexer reserves it).
BackTick == "BACKTICK"

\* Every character a text of the model can hold.
Alphabet ==
  ClassChars \cup
  {"B", "H", "J", "{", "}", "%", ":", ".", " ", "\n", BackTick, "!", "[", "]", "(",
   ")", "/", "<", ">", "=", "\"", "'"}

\* The characters a dot matches: anything but a line terminator.
Dot == Alphabet \ {"\n"}

\* The characters [^c] matches.
NotChar(c) == Alphabet \ {c}

(***************************************************************************)
(* Patterns: a sequence of items                                           *)
(*   one  cs : one character of cs                                         *)
(*   opt  cs : an optional character of cs                                 *)
(*   star cs : zero or more characters of cs, greedy                       *)
(*   plus cs : one or more characters of cs, greedy                        *)
(*   open g / close : the bounds of capturing group g                      *)
(*   alt  ps : a final alternation between the patterns ps                 *)
(***************************************************************************)

One(cs)  == [k |-> "one", cs |-> cs]
Opt(cs)  == [k |-> "opt", cs |-> cs]
Star(cs) == [k |-> "star", cs |-> cs]
Plus(cs) == [k |-> "plus", cs |-> cs]
Open(g)  == [k |-> "open", g |-> g]
Close    == [k |-> "close"]
Alt(ps)  == [k |-> "alt", ps |-> ps]

\* The pattern of a literal string.
Lit(t) == [j \in 1..Len(t) |-> One({t[j]})]

NoMatch == [ok |-> FALSE]
NoCap == [g |-> 0, from |-> 0, to |-> 0]

\* F applied to the value of v, which is evaluated once.
With(v, F(_)) == CHOOSE r \in {F(x) : x \in {v}} : TRUE

\* The number of consecutive characters of cs in s from position i.
Run(s, i, cs) ==
  CHOOSE n \in 0..(Len(s) + 1 - i) :
    /\ \A j \in 0..(n - 1) : s[i + j] \in cs
    /\ (i + n > Len(s) \/ s[i + n] \notin cs)

RECURSIVE MatchAt(_, _, _, _, _)
RECURSIVE Greedy(_, _, _, _, _, _, _)
RECURSIVE FirstAlt(_, _, _, _, _)

\* The match of pat[k..] against s at position i: [ok, end, cap] where end
\* is the position after the match and cap the capturing group that took
\* part, or NoMatch.
MatchAt(pat, k, s, i, cap) ==
  IF k > Len(pat) THEN [ok |-> TRUE, end |-> i, cap |-> cap]
  ELSE LET it == pat[k] IN
    CASE it.k = "one" ->
           IF i <= Len(s) /\ s[i] \in it.cs
           THEN MatchAt(pat, k + 1, s, i + 1, cap) ELSE NoMatch
      [] it.k = "opt" ->
           IF i <= Len(s) /\ s[i] \in it.cs
           THEN LET r == MatchAt(pat, k + 1, s, i + 1, cap)
                IN IF r.ok THEN r ELSE MatchAt(pat, k + 1, s, i, cap)
           ELSE MatchAt(pat, k + 1, s, i, cap)
      [] it.k = "star" -> Greedy(pat, k, s, i, Run(s, i, it.cs), 0, cap)
      [] it.k = "plus" -> Greedy(pat, k, s, i, Run(s, i, it.cs), 1, cap)
      [] it.k = "open" ->
           MatchAt(pat, k + 1, s, i, [g |-> it.g, from |-> i, to |-> i])
      [] it.k = "close" ->
           MatchAt(pat, k + 1, s, i, [cap EXCEPT !.to = i])
      [] it.k = "alt" -> FirstAlt(it.ps, 1, s, i, cap)

\* A greedy repetition that has n characters available gives them back
\* one at a time until the rest of the pattern matches.
Greedy(pat, k, s, i, n, min, cap) ==
  With({m \in min..n : MatchAt(pat, k + 1, s, i + m, cap).ok},
       LAMBDA ok :
         IF ok = {} THEN NoMatch
         ELSE With(CHOOSE m \in ok : \A o \in ok : o <= m,
                   LAMBDA m : MatchAt(pat, k + 1, s, i + m, cap)))

\* The first alternative of ps[a..] that matches.
FirstAlt(ps, a, s, i, cap) ==
  IF a > Len(ps) THEN NoMatch
  ELSE LET r == MatchAt(ps[a], 1, s, i, cap)
       IN IF r.ok THEN r ELSE FirstAlt(ps, a + 1, s, i, cap)

\* The leftmost match of pat in s at or after position i:
\* [ok, start, end, cap], or NoMatch.
Exec(pat, s, i) ==
  With({j \in i..(Len(s) + 1) : MatchAt(pat, 1, s, j, NoCap).ok},
       LAMBDA ok :
         IF ok = {} THEN NoMatch
         ELSE With(CHOOSE m \in ok : \A o \in ok : m <= o,
                   LAMBDA j :
                     With(MatchAt(pat, 1, s, j, NoCap),
                          LAMBDA r : [ok |-> TRUE, start |-> j,
                                      end |-> r.end, cap |-> r.cap])))

\* s[a..b-1]
Slice(s, a, b) == SubSeq(s, a, b - 1)

\* String.prototype.replace(regexp with flag g, replacement) from position i.
RECURSIVE ReplaceAllFrom(_, _, _, _)
ReplaceAllFrom(s, pat, rep, i) ==
  With(Exec(pat, s, i),
       LAMBDA m :
         IF ~m.ok THEN Slice(s, i, Len(s) + 1)
         ELSE Slice(s, i, m.start) \o rep \o
              (IF m.end > m.start THEN ReplaceAllFrom(s, pat, rep, m.end)
               ELSE IF m.end <= Len(s)
                    THEN <<s[m.end]>> \o ReplaceAllFrom(s, pat, rep, m.end + 1)
                    ELSE <<>>))

ReplaceAll(s, pat, rep) == With(s, LAMBDA v : ReplaceAllFrom(v, pat, rep, 1))

(***************************************************************************)
(* The stages of the content transformation                                *)
(***************************************************************************)

\* A front-matter key that is absent.
Undefined == <<"undefined">>

\* `![](${post.media.card.url})\n\n${content}`
moveCardImageToContent(post, content) ==
  IF post.card # Undefined /\ post.card # <<>>
  THEN <<"!", "[", "]", "(">> \o post.card \o <<")", "\n", "\n">> \o content
  ELSE content

\* /{{ ?site.baseurl ?}}/gm
siteUrlRegex ==
  Lit(<<"{", "{">>) \o <<Opt({" "})>> \o Lit(<<"s", "i", "t", "e">>) \o
  <<One(Dot)>> \o Lit(<<"b", "a", "s", "e", "u", "r", "l">>) \o
  <<Opt({" "})>> \o Lit(<<"}", "}">>)

handleSiteUrl(content) == ReplaceAll(content, siteUrlRegex, <<>>)

\* handlePostAuthors with a single newline after the byline.
handlePostAuthorsOneNewline(post, content) ==
  IF post.author # Undefined /\ post.author # <<>>
  THEN <<"B", "y", ":", " ">> \o post.author \o <<"\n">> \o content
  ELSE content

\* `By: ${post.author}\n\n${content}`
handlePostAuthors(post, content) ==
  IF post.author # Undefined /\ post.author # <<>>
  THEN <<"B", "y", ":", " ">> \o post.author \o <<"\n", "\n">> \o content
  ELSE content

\* /{: .[a-z0-9-_]+ ?}/gm
liquidClassRegex ==
  Lit(<<"{", ":", " ">>) \o <<One(Dot), Plus(ClassChars), Opt({" "})>> \o
  Lit(<<"}">>)

handleLiquidClasses(content) == ReplaceAll(content, liquidClassRegex, <<>>)

\* /{% ?highlight ?.* ?%}/gm
highlightRegex ==
  Lit(<<"{", "%">>) \o <<Opt({" "})>> \o
  Lit(<<"h", "i", "g", "h", "l", "i", "g", "h", "t">>) \o
  <<Opt({" "}), Star(Dot), Opt({" "})>> \o Lit(<<"%", "}">>)

\* /{% ?endhighlight ?%}/gm
endhighlightRegex ==
  Lit(<<"{", "%">>) \o <<Opt({" "})>> \o
  Lit(<<"e", "n", "d", "h", "i", "g", "h", "l", "i", "g", "h", "t">>) \o
  <<Opt({" "})>> \o Lit(<<"%", "}">>)

\* The three backticks of a Markdown code fence.
Fence == <<BackTick, BackTick, BackTick>>

handleCodeBlocks(content) ==
  ReplaceAll(ReplaceAll(content, highlightRegex, Fence), endhighlightRegex, Fence)

\* lineBreaksRegex with the comma of {3,} forgotten.
lineBreaksRegexExactlyThree == <<One({"\n"}), One({"\n"}), One({"\n"})>>

\* /[\n]{3,}/gm
lineBreaksRegex == <<One({"\n"}), One({"\n"}), Plus({"\n"})>>

handleLineBreaks(content) == ReplaceAll(content, lineBreaksRegex, <<"\n", "\n">>)

(***************************************************************************)
(* Image references                                                        *)
(***************************************************************************)

\* /!\[[^\]]*\]\(([^)]*)\)/gm
mdImgRegex ==
  <<One({"!"}), One({"["}), Star(NotChar("]")), One({"]"}), One({"("}),
    Open(1), Star(NotChar(")")), Close, One({")"})>>

\* /<img(?:.*)src=(?:"([^"]*)"|'([^']*)')/gm
htmlImgRegex ==
  Lit(<<"<", "i", "m", "g">>) \o <<Star(Dot)>> \o Lit(<<"s", "r", "c", "=">>) \o
  <<Alt(<< <<One({"\""}), Open(1), Star(NotChar("\"")), Close, One({"\""})>>,
           <<One({"'"}), Open(2), Star(NotChar("'")), Close, One({"'"})>> >>)>>

\* m[1] || m[2]: an empty first group is falsy and gives the second group,
\* which is undefined when it took no part in the match.
Captured(s, cap) ==
  IF cap.g = 1 /\ cap.to > cap.from THEN Slice(s, cap.from, cap.to)
  ELSE IF cap.g = 2 THEN Slice(s, cap.from, cap.to)
  ELSE Undefined

RECURSIVE getMatchesFrom(_, _, _)
getMatchesFrom(string, regexp, lastIndex) ==
  With(Exec(regexp, string, lastIndex),
       LAMBDA m :
         IF ~m.ok THEN <<>>
         ELSE <<Captured(string, m.cap)>> \o
              getMatchesFrom(string, regexp,
                             IF m.end = m.start THEN m.end + 1 ELSE m.end))

getMatches(string, regexp) ==
  With(string, LAMBDA v : getMatchesFrom(v, regexp, 1))

extractImageUrls(content) ==
  getMatches(content, mdImgRegex) \o getMatches(content, htmlImgRegex)

\* TRUE when t occurs in s at position i.
OccursAt(s, t, i) ==
  /\ i + Len(t) - 1 <= Len(s)
  /\ \A j \in 1..Len(t) : s[i + j - 1] = t[j]

\* String.prototype.indexOf, 1-based; 0 when t does not occur in s.
IndexOf(s, t) ==
  IF \E i \in 1..(Len(s) + 1) : OccursAt(s, t, i)
  THEN CHOOSE i \in 1..(Len(s) + 1) :
         OccursAt(s, t, i) /\ \A j \in 1..(i - 1) : ~OccursAt(s, t, j)
  ELSE 0

StartsWith(s, t) == OccursAt(s, t, 1)

\* The characters that end the host of a URL in url.parse.
HostEnd == {"/", ":", "%", "{", "}", "<", ">", "\"", "'", " ", "\n", BackTick}

\* url.parse(i).hostname for relative references and http(s) URLs: the
\* empty text stands for null.
Hostname(i) ==
  LET http  == <<"h", "t", "t", "p", ":", "/", "/">>
      https == <<"h", "t", "t", "p", "s", ":", "/", "/">>
      from  == IF StartsWith(i, https) THEN Len(https) + 1
               ELSE IF StartsWith(i, http) THEN Len(http) + 1 ELSE 0
  IN IF from = 0 THEN <<>>
     ELSE Slice(i, from, from + Run(i, from, Alphabet \ HostEnd))

devseedHost ==
  <<"d", "e", "v", "e", "l", "o", "p", "m", "e", "n", "t", "s", "e", "e", "d",
    ".", "o", "r", "g">>

\* i => !u.hostname || u.hostname === 'developmentseed.org'
IsUploadable(i) == Hostname(i) = <<>> \/ Hostname(i) = devseedHost

\* url.parse throws a TypeError on a reference that is not a string.
filterUploadableThrows(images) ==
  \E j \in 1..Len(images) : images[j] = Undefined

filterUploadableImages(images) == SelectSeq(images, IsUploadable)

\* /^https?:\/\/developmentseed.org/
devseedPrefixRegex ==
  Lit(<<"h", "t", "t", "p">>) \o <<Opt({"s"})>> \o
  Lit(<<":", "/", "/", "d", "e", "v", "e", "l", "o", "p", "m", "e", "n", "t",
        "s", "e", "e", "d">>) \o <<One(Dot)>> \o Lit(<<"o", "r", "g">>)

StripSite(img) ==
  LET r == MatchAt(devseedPrefixRegex, 1, img, 1, NoCap)
  IN IF r.ok THEN Slice(img, r.end, Len(img) + 1) ELSE img

\* path.basename: the part after the last slash, trailing slashes dropped.
RECURSIVE DropTrailingSlashes(_)
DropTrailingSlashes(p) ==
  IF Len(p) > 0 /\ p[Len(p)] = "/"
  THEN DropTrailingSlashes(SubSeq(p, 1, Len(p) - 1)) ELSE p

RECURSIVE LastSegment(_)
LastSegment(p) ==
  IF Len(p) = 0 \/ p[Len(p)] = "/" THEN <<>>
  ELSE LastSegment(SubSeq(p, 1, Len(p) - 1)) \o <<p[Len(p)]>>

basename(p) == LastSegment(DropTrailingSlashes(p))

\* `images/${path.basename(img)}`
imgKey(img) == <<"i", "m", "a", "g", "e", "s", "/">> \o basename(StripSite(img))

s3BaseUrl ==
  <<"h", "t", "t", "p", "s", ":", "/", "/", "s", "3", ".", "a", "m", "a", "z",
    "o", "n", "a", "w", "s", ".", "c", "o", "m">>

\* The bucket name of the environment.
AWS_S3_BUCKET == <<"d", "s", "o">>

\* The URL uploadImage returns.
uploadImageURL(img, dryrun) ==
  IF dryrun
  THEN <<"h", "t", "t", "p", ":", "/", "/", "l", "o", "c", "a", "l", "h", "o",
         "s", "t", "/", "t", "e", "s", "t", "/">> \o imgKey(img)
  ELSE s3BaseUrl \o <<"/">> \o AWS_S3_BUCKET \o <<"/">> \o imgKey(img)

\* content.replace(img, newURL): the first occurrence of the text img.
ReplaceFirst(content, img, newURL) ==
  With(content,
       LAMBDA c :
         With(IndexOf(c, img),
              LAMBDA i :
                IF i = 0 THEN c
                ELSE Slice(c, 1, i) \o newURL \o
                     Slice(c, i + Len(img), Len(c) + 1)))

\* The loop of handlePostContentImages from image j on.
RECURSIVE ReplaceImagesFrom(_, _, _, _)
ReplaceImagesFrom(content, imgsToUpload, j, dryrun) ==
  IF j > Len(imgsToUpload) THEN content
  ELSE With(ReplaceFirst(content, imgsToUpload[j],
                         uploadImageURL(imgsToUpload[j], dryrun)),
            LAMBDA c : ReplaceImagesFrom(c, imgsToUpload, j + 1, dryrun))

\* The content handlePostContentImages returns when every upload succeeds
\* (it throws when filterUploadableThrows).
handlePostContentImages(content, dryrun) ==
  With(filterUploadableImages(extractImageUrls(content)),
       LAMBDA imgsToUpload : ReplaceImagesFrom(content, imgsToUpload, 1, dryrun))

\* Lines 453-465 of main: the stages before the image pass.
Transform(post) ==
  handleLineBreaks(handleCodeBlocks(handleLiquidClasses(
    handlePostAuthors(post, handleSiteUrl(
      moveCardImageToContent(post, post.body))))))

(***************************************************************************)
(* The posts directory and the ledgers                                     *)
(***************************************************************************)

\* The number of files glob.sync finds.
NumFiles == 6

\* The number of runs a behaviour of Spec starts.
MaxRuns == 2

\* .slice(0, 5) of getPostsFilesToProcess.
BatchSize == 5

\* A file path: its position in the sorted result of glob.sync.
Files == 1..NumFiles

\* glob.sync('posts/blog-2018/*.*')
Candidates == [i \in 1..NumFiles |-> i]

\* The empty text after the last newline of a ledger, as split('\n') gives it.
EmptyLine == 0

Jane == <<"J", "a", "n", "e">>
CardUrl == <<"/", "i", "m", "g", "/", "a", ".", "j", "p", "g">>
Hello == <<"H", "e", "l", "l", "o">>
LocalImage == <<"!", "[", "]", "(", "a", ".", "j", "p", "g", ")">>

\* The values of the published key of a front-matter.
PublishedValues == {"undefined", "true", "false"}

\* yamlFront.safeLoadFront(fs.readFileSync(file)): every third file holds a
\* local image, every second one names its author, the fourth has a permalink.
PostFile(file, pub) ==
  [title     |-> file,
   published |-> pub,
   author    |-> IF file % 2 = 0 THEN Jane ELSE Undefined,
   card      |-> Undefined,
   permalink |-> IF file = 4 THEN <<"/", "x">> ELSE Undefined,
   date      |-> Undefined,
   body      |-> IF file % 3 = 1 THEN Hello \o <<"\n">> \o LocalImage ELSE Hello]

\* No post is loaded.
NoPost ==
  [title |-> 0, published |-> "undefined", author |-> Undefined,
   card |-> Undefined, permalink |-> Undefined, date |-> Undefined,
   body |-> <<>>]

\* IsUnpublished with the skip forgotten.
IsUnpublishedNever(p) == FALSE

\* IsUnpublished without the typeof test: !post.published alone.
IsUnpublishedFalsy(p) == p.published # "true"

\* typeof post.published !== 'undefined' && !post.published
IsUnpublished(p) == p.published # "undefined" /\ p.published # "true"

\* The date of the file name (fileDateNameRegex): posts are dated by file.
FileDate(file) == <<2018, 1, file>>

\* getPostDate: the front-matter date when there is one, else the file's.
getPostDate(file, p) == IF p.date # Undefined THEN p.date ELSE FileDate(file)

\* m < 10 ? `0${m}` : m
Pad(n) == IF n < 10 THEN <<0, n>> ELSE <<n>>

getDateParts(date) == <<date[1], Pad(date[2]), Pad(date[3])>>

\* getOriginalURL: the permalink on the site, or /blog/:year/:month/:day/:title
getOriginalURL(file, p) ==
  IF p.permalink # Undefined
  THEN [site |-> devseedHost, path |-> p.permalink]
  ELSE [site |-> devseedHost,
        path |-> <<"blog", getDateParts(getPostDate(file, p)), file>>]

\* done.split('\n') of a ledger holding the given lines.
SplitLines(lines) == lines \o <<EmptyLine>>

InSeq(x, sq) == \E j \in 1..Len(sq) : sq[j] = x

Take(sq, n) == SubSeq(sq, 1, IF Len(sq) < n THEN Len(sq) ELSE n)

\* glob.sync(...).filter(f => completed.indexOf(f) === -1)
NotCompleted(done) ==
  SelectSeq(Candidates, LAMBDA f : ~InSeq(f, SplitLines(done)))

\* getPostsFilesToProcess: done holds the lines of fileCompleted.
getPostsFilesToProcess(dryrun, argv3, done) ==
  IF dryrun /\ argv3 THEN Candidates
  ELSE Take(NotCompleted(done), BatchSize)

VARIABLES
  published,    \* the published key of each file's front-matter
  redirects,    \* redirects.json: a sequence of {from, to}
  completed,    \* upload-complete.csv: a sequence of paths
  dryFiles,     \* dryrun-redirects.json and dryrun-upload-complete.csv
  s3,           \* the keys put to the bucket, in order
  medium,       \* the posts created on the platform, in order
  argv,         \* the command line of the current run
  status,       \* "none", "running", "finished", "exit1" or "crashed"
  pc,           \* the position of main in the loop
  files,        \* const files of main
  idx,          \* the position of the loop in files
  post,         \* the post loaded
  content,      \* let content
  imgs,         \* imgsToUpload of handlePostContentImages
  imgIdx,       \* the position of its loop
  uploadResult, \* const uploadResult
  runs          \* the number of runs started

vars ==
  <<published, redirects, completed, dryFiles, s3, medium, argv, status, pc,
    files, idx, post, content, imgs, imgIdx, uploadResult, runs>>

ledgers == <<redirects, completed, dryFiles>>
platform == <<s3, medium>>
locals == <<post, content, imgs, imgIdx, uploadResult>>

\* DryRun testing the presence of process.argv[3] as well.
DryRunOnlyWithGlob == argv.dryrun /\ argv.argv3

\* process.argv[2] === '--dryrun'
DryRun == argv.dryrun

NoDryFiles == [exists |-> FALSE, redirects |-> <<>>, completed |-> <<>>]

Init ==
  /\ \E unpub \in SUBSET Files :
       published = [f \in Files |->
                      IF f \in unpub THEN "false"
                      ELSE IF f % 2 = 0 THEN "true" ELSE "undefined"]
  /\ redirects = <<>>
  /\ completed = <<>>
  /\ dryFiles = NoDryFiles
  /\ s3 = <<>>
  /\ medium = <<>>
  /\ argv = [dryrun |-> FALSE, argv3 |-> FALSE]
  /\ status = "none"
  /\ pc = "load"
  /\ files = <<>>
  /\ idx = 1
  /\ post = NoPost
  /\ content = <<>>
  /\ imgs = <<>>
  /\ imgIdx = 1
  /\ uploadResult = <<>>
  /\ runs = 0

ResetLocals ==
  /\ post' = NoPost
  /\ content' = <<>>
  /\ imgs' = <<>>
  /\ imgIdx' = 1
  /\ uploadResult' = <<>>

\* The process ends: by an uncaught exception or a kill, or by returning.
Stop(st) ==
  /\ status' = st
  /\ pc' = "load"
  /\ files' = <<>>
  /\ idx' = 1
  /\ ResetLocals

\* The content of the completed ledger the run reads and appends to.
FileCompleted == IF DryRun THEN dryFiles.completed ELSE completed

\* Start with the posts the platform already holds counted as completed.
StartSkipsPublished(dryrun, argv3) ==
  /\ status # "running"
  /\ argv' = [dryrun |-> dryrun, argv3 |-> argv3]
  /\ dryFiles' = IF dryrun
                 THEN [exists |-> TRUE, redirects |-> redirects,
                       completed |-> completed]
                 ELSE dryFiles
  /\ files' = getPostsFilesToProcess(dryrun, argv3,
                 completed \o [j \in 1..Len(medium) |-> medium[j].title])
  /\ status' = "running"
  /\ pc' = "load"
  /\ idx' = 1
  /\ ResetLocals
  /\ UNCHANGED <<published, redirects, completed, platform>>

\* Lines 420-441 of main: the ledger files of the run, seeded from the live
\* ones for a dry-run, and the files to process.
Start(dryrun, argv3) ==
  /\ status # "running"
  /\ argv' = [dryrun |-> dryrun, argv3 |-> argv3]
  /\ dryFiles' = IF dryrun
                 THEN [exists |-> TRUE, redirects |-> redirects,
                       completed |-> completed]
                 ELSE dryFiles
  /\ files' = getPostsFilesToProcess(dryrun, argv3, completed)
  /\ status' = "running"
  /\ pc' = "load"
  /\ idx' = 1
  /\ ResetLocals
  /\ UNCHANGED <<published, redirects, completed, platform>>

StartRun ==
  /\ runs < MaxRuns
  /\ runs' = runs + 1
  /\ \E dryrun \in BOOLEAN, argv3 \in BOOLEAN :
       /\ (argv3 => dryrun)
       /\ Start(dryrun, argv3)

\* Lines 444-452: an unpublished post is skipped.
SkipPost ==
  /\ status = "running" /\ pc = "load" /\ idx <= Len(files)
  /\ IsUnpublished(PostFile(files[idx], published[files[idx]]))
  /\ idx' = idx + 1
  /\ UNCHANGED <<published, ledgers, platform, argv, status, pc, files,
                 locals, runs>>

\* Lines 446-467 and 212: the post is loaded and transformed, and its images
\* to upload are found (url.parse throws on an undefined reference).
LoadPost ==
  /\ status = "running" /\ pc = "load" /\ idx <= Len(files)
  /\ \E p \in {PostFile(files[idx], published[files[idx]])} :
       /\ ~IsUnpublished(p)
       /\ \E c \in {Transform(p)} :
            \E refs \in {extractImageUrls(c)} :
              IF filterUploadableThrows(refs)
              THEN Stop("crashed")
              ELSE /\ post' = p
                   /\ content' = c
                   /\ imgs' = filterUploadableImages(refs)
                   /\ imgIdx' = 1
                   /\ pc' = "images"
                   /\ UNCHANGED <<status, files, idx, uploadResult>>
  /\ UNCHANGED <<published, ledgers, platform, argv, runs>>

\* Lines 215-220 and uploadImage: one image is put to the bucket (not in a
\* dry-run) and its first occurrence in the content replaced.
UploadImage ==
  /\ status = "running" /\ pc = "images" /\ imgIdx <= Len(imgs)
  /\ s3' = IF DryRun THEN s3 ELSE Append(s3, imgKey(imgs[imgIdx]))
  /\ content' = ReplaceFirst(content, imgs[imgIdx],
                             uploadImageURL(imgs[imgIdx], DryRun))
  /\ imgIdx' = imgIdx + 1
  /\ UNCHANGED <<published, ledgers, medium, argv, status, pc, files, idx,
                 post, imgs, uploadResult, runs>>

\* readFileSync or putS3Object fails: the rejection is not caught.
UploadImageFails ==
  /\ status = "running" /\ pc = "images" /\ imgIdx <= Len(imgs)
  /\ ~DryRun
  /\ Stop("crashed")
  /\ UNCHANGED <<published, ledgers, platform, argv, runs>>

\* uploadPost in a dry-run: `http://localhost/post/${title}`
\* uploadPost live: the platform creates the post and returns its URL.
PublishedUrl == [host |-> "medium", id |-> Len(medium) + 1]

\* Lines 478-488: the post is published.
Publish ==
  /\ status = "running" /\ pc = "images" /\ imgIdx > Len(imgs)
  /\ IF DryRun
     THEN /\ uploadResult' = [host |-> "localhost", id |-> post.title]
          /\ UNCHANGED medium
     ELSE /\ medium' = Append(medium,
                              [title |-> post.title,
                               publishedAt |-> getPostDate(files[idx], post),
                               url |-> PublishedUrl])
          /\ uploadResult' = PublishedUrl
  /\ pc' = "redirect"
  /\ UNCHANGED <<published, ledgers, s3, argv, status, files, idx, post,
                 content, imgs, imgIdx, runs>>

\* handleMediumErrors: the response holds an errors list.
HasErrors(response) == response.errors # <<>>

\* PublishErrors with the errors of the response checked after the ledgers
\* were appended.
PublishErrorsAfterRecord ==
  /\ status = "running" /\ pc = "images" /\ imgIdx > Len(imgs)
  /\ ~DryRun
  /\ \E response \in {[errors |-> <<"e">>]} :
       /\ HasErrors(response)
       /\ status' = "exit1"
  /\ redirects' = Append(redirects, [from |-> getOriginalURL(files[idx], post),
                                     to |-> Undefined])
  /\ completed' = Append(completed, files[idx])
  /\ UNCHANGED <<published, dryFiles, platform, argv, pc, files, idx, locals,
                 runs>>

\* uploadPost and handleMediumErrors: the platform answers with errors and
\* the process exits with code 1.
PublishErrors ==
  /\ status = "running" /\ pc = "images" /\ imgIdx > Len(imgs)
  /\ ~DryRun
  /\ \E response \in {[errors |-> <<"e">>]} :
       /\ HasErrors(response)
       /\ status' = "exit1"
  /\ UNCHANGED <<published, ledgers, platform, argv, pc, files, idx, locals,
                 runs>>

\* AppendRedirect with from and to exchanged.
AppendRedirectSwapped ==
  /\ status = "running" /\ pc = "redirect"
  /\ LET rec == [from |-> uploadResult,
                 to |-> getOriginalURL(files[idx], post)]
     IN IF DryRun
        THEN /\ dryFiles' = [dryFiles EXCEPT !.exists = TRUE,
                                             !.redirects = Append(@, rec)]
             /\ UNCHANGED redirects
        ELSE /\ redirects' = Append(redirects, rec)
             /\ UNCHANGED dryFiles
  /\ pc' = "complete"
  /\ UNCHANGED <<published, completed, platform, argv, status, files, idx,
                 locals, runs>>

\* Line 489: fs.appendFileSync(fileRedirect, ...)
AppendRedirect ==
  /\ status = "running" /\ pc = "redirect"
  /\ LET rec == [from |-> getOriginalURL(files[idx], post),
                 to |-> uploadResult]
     IN IF DryRun
        THEN /\ dryFiles' = [dryFiles EXCEPT !.exists = TRUE,
                                             !.redirects = Append(@, rec)]
             /\ UNCHANGED redirects
        ELSE /\ redirects' = Append(redirects, rec)
             /\ UNCHANGED dryFiles
  /\ pc' = "complete"
  /\ UNCHANGED <<published, completed, platform, argv, status, files, idx,
                 locals, runs>>

\* Line 490: fs.appendFileSync(fileCompleted, file + '\n'), and the next file.
AppendCompleted ==
  /\ status = "running" /\ pc = "complete"
  /\ IF DryRun
     THEN /\ dryFiles' = [dryFiles EXCEPT !.exists = TRUE,
                                          !.completed = Append(@, files[idx])]
          /\ UNCHANGED completed
     ELSE /\ completed' = Append(completed, files[idx])
          /\ UNCHANGED dryFiles
  /\ pc' = "load"
  /\ idx' = idx + 1
  /\ ResetLocals
  /\ UNCHANGED <<published, redirects, platform, argv, status, files, runs>>

\* Lines 496-504: the loop is over; a dry-run deletes its ledger files.
Finish ==
  /\ status = "running" /\ pc = "load" /\ idx > Len(files)
  /\ dryFiles' = IF DryRun THEN NoDryFiles ELSE dryFiles
  /\ Stop("finished")
  /\ UNCHANGED <<published, redirects, completed, platform, argv, runs>>

\* The process is killed, or a network call throws.
Crash ==
  /\ status = "running"
  /\ Stop("crashed")
  /\ UNCHANGED <<published, ledgers, platform, argv, runs>>

Next ==
  \/ StartRun
  \/ SkipPost
  \/ LoadPost
  \/ UploadImage
  \/ UploadImageFails
  \/ Publish
  \/ PublishErrors
  \/ AppendRedirect
  \/ AppendCompleted
  \/ Finish
  \/ Crash

Spec == Init /\ [][Next]_vars

(***************************************************************************)
(* Live runs only, with no failure: runs are started again and again.      *)
(***************************************************************************)

LiveStart == Start(FALSE, FALSE) /\ UNCHANGED runs

FairNext ==
  \/ LiveStart
  \/ SkipPost
  \/ LoadPost
  \/ UploadImage
  \/ Publish
  \/ AppendRedirect
  \/ AppendCompleted
  \/ Finish

FairSpec == Init /\ [][FairNext]_vars /\ WF_vars(FairNext)

(***************************************************************************)
(* The content transformation of one post, stage by stage                  *)
(***************************************************************************)

\* The number of fragments a body is made of.
MaxFrags == 2

Fragments ==
  {Hello,
   <<"\n", "\n", "\n">>,
   <<"{", "{", " ", "s", "i", "t", "e", ".", "b", "a", "s", "e", "u", "r", "l",
     " ", "}", "}">>,
   <<"{", "{", "{", "{", "s", "i", "t", "e", ".", "b", "a", "s", "e", "u", "r",
     "l", "}", "}">>,
   <<"s", "i", "t", "e", ".", "b", "a", "s", "e", "u", "r", "l", "}", "}">>,
   <<"{", ":", " ", ".", "d", "r", "o", "p", "c", "a", "p", "}">>,
   <<"{", ":", " ", ".", "a", "{", ":", " ", ".", "b", "}">>,
   <<"b", "}">>,
   <<"{", "%", " ", "h", "i", "g", "h", "l", "i", "g", "h", "t", " ", "j", "s",
     " ", "%", "}">>,
   <<"{", "%", " ", "e", "n", "d", "h", "i", "g", "h", "l", "i", "g", "h", "t",
     " ", "%", "}">>,
   LocalImage,
   <<"<", "i", "m", "g", " ", "s", "r", "c", "=", "'", "/", "i", "m", "g", "/",
     "a", ".", "j", "p", "g", "'", ">">>,
   <<"!", "[", "]", "(", "h", "t", "t", "p", "s", ":", "/", "/", "d", "e", "v",
     "e", "l", "o", "p", "m", "e", "n", "t", "s", "e", "e", "d", ".", "o", "r",
     "g", "/", "i", "m", "g", "/", "a", ".", "j", "p", "g", ")">>,
   <<"!", "[", "]", "(", "h", "t", "t", "p", ":", "/", "/", "x", ".", "c", "o",
     "m", "/", "b", ".", "p", "n", "g", ")">>,
   <<"!", "[", "]", "(", ")">>}

\* The bodies made of at most n fragments.
RECURSIVE BodiesOf(_)
BodiesOf(n) ==
  IF n = 0 THEN {<<>>}
  ELSE LET B == BodiesOf(n - 1)
       IN B \cup {b \o f : b \in B, f \in Fragments}

TransformInit ==
  /\ published = [f \in Files |-> "undefined"]
  /\ redirects = <<>>
  /\ completed = <<>>
  /\ dryFiles = NoDryFiles
  /\ s3 = <<>>
  /\ medium = <<>>
  /\ \E dryrun \in BOOLEAN : argv = [dryrun |-> dryrun, argv3 |-> FALSE]
  /\ status = "running"
  /\ pc = "card"
  /\ files = <<1>>
  /\ idx = 1
  /\ \E author \in {Undefined, Jane}, card \in {Undefined, CardUrl},
        body \in BodiesOf(MaxFrags) :
       /\ post = [PostFile(1, "undefined") EXCEPT
                    !.author = author, !.card = card, !.body = body]
       /\ content = body
  /\ imgs = <<>>
  /\ imgIdx = 1
  /\ uploadResult = <<>>
  /\ runs = 1

\* One stage of lines 453-465 of main.
Stage(at, result, then) ==
  /\ pc = at
  /\ content' = result
  /\ pc' = then
  /\ UNCHANGED <<published, ledgers, platform, argv, status, files, idx, post,
                 imgs, imgIdx, uploadResult, runs>>

StageCard == Stage("card", moveCardImageToContent(post, content), "site")
StageSiteUrl == Stage("site", handleSiteUrl(content), "author")
StageAuthors == Stage("author", handlePostAuthors(post, content), "liquid")
StageLiquid == Stage("liquid", handleLiquidClasses(content), "code")
StageCodeBlocks == Stage("code", handleCodeBlocks(content), "breaks")
StageLineBreaks == Stage("breaks", handleLineBreaks(content), "imagepass")

\* Line 467: the image pass with every upload succeeding.
StageImages ==
  /\ pc = "imagepass"
  /\ ~filterUploadableThrows(extractImageUrls(content))
  /\ imgs' = filterUploadableImages(extractImageUrls(content))
  /\ imgIdx' = Len(imgs') + 1
  /\ content' = handlePostContentImages(content, DryRun)
  /\ s3' = IF DryRun THEN s3 ELSE s3 \o [j \in 1..Len(imgs') |-> imgKey(imgs'[j])]
  /\ pc' = "images"
  /\ UNCHANGED <<published, ledgers, medium, argv, status, files, idx, post,
                 uploadResult, runs>>

\* Line 212: url.parse throws on an undefined reference.
StageImagesThrows ==
  /\ pc = "imagepass"
  /\ filterUploadableThrows(extractImageUrls(content))
  /\ Stop("crashed")
  /\ UNCHANGED <<published, ledgers, platform, argv, runs>>

TransformNext ==
  \/ StageCard
  \/ StageSiteUrl
  \/ StageAuthors
  \/ StageLiquid
  \/ StageCodeBlocks
  \/ StageLineBreaks
  \/ StageImages
  \/ StageImagesThrows

TransformSpec == TransformInit /\ [][TransformNext]_vars

\* The stages compose to Transform.
TransformAgrees == pc = "imagepass" => content = Transform(post)

(***************************************************************************)
(* Properties                                                              *)
(***************************************************************************)

\* The number of elements of sq that satisfy Test.
Count(sq, Test(_)) == Len(SelectSeq(sq, Test))

\* The platform posts created for a file.
PostsOf(f) == SelectSeq(medium, LAMBDA m : m.title = f)

\* The original URL of a file of the posts directory.
OriginalUrlOf(f) == getOriginalURL(f, PostFile(f, published[f]))

\* The redirect records of a file's original URL.
RedirectsOf(f) == SelectSeq(redirects, LAMBDA r : r.from = OriginalUrlOf(f))

\* C1: every path in upload-complete.csv belongs to a post that is not
\* unpublished and whose publish call had returned successfully: the ledger
\* never holds more lines for a file than the platform holds posts for it.
C1_CompletedWasPublished ==
  \A j \in 1..Len(completed) :
    /\ published[completed[j]] # "false"
    /\ Count(completed, LAMBDA f : f = completed[j]) <= Len(PostsOf(completed[j]))

\* A second run has stopped early; a path is recorded, another file is
\* unpublished and one post was published without being recorded.
C1_Witness ==
  /\ runs >= 2 /\ status \in {"crashed", "exit1"}
  /\ completed # <<>>
  /\ \E f \in Files : published[f] = "false"
  /\ \E j \in 1..Len(medium) : ~InSeq(medium[j].title, completed)

\* C2: the files a run processes are exactly the candidates that are not in
\* the completed ledger, in candidate order (checked as the loop starts, when
\* the run has appended nothing yet).
C2_PendingExact ==
  (status = "running" /\ ~argv.argv3 /\ pc = "load" /\ idx = 1) =>
    /\ \A f \in Files : InSeq(f, files) <=> ~InSeq(f, FileCompleted)
    /\ \A i, j \in 1..Len(files) : i < j => files[i] < files[j]

\* C3: when the platform answers a publish call with errors the run exits at
\* once: that step leaves the ledgers, the bucket and the platform as they
\* were, and the exited process takes no further step (the only step from
\* there is the start of another run, which leaves the live ledgers alone).
C3_AbortOnPublishError ==
  [][/\ (status = "running" /\ status' = "exit1") =>
          /\ UNCHANGED <<redirects, completed, dryFiles, s3, medium>>
          /\ pc = "images" /\ imgIdx > Len(imgs)
     /\ status = "exit1" =>
          /\ runs' = runs + 1 /\ status' = "running" /\ idx' = 1
          /\ UNCHANGED <<redirects, completed, s3, medium>>]_vars

\* A run has exited on a publish error after it recorded an earlier post and
\* with pending files left.
C3_Witness ==
  /\ status = "exit1"
  /\ idx < Len(files)
  /\ \E j \in 1..Len(completed) : \E i \in 1..(idx - 1) : files[i] = completed[j]

\* C4: no step of a dry-run, its start and its end included, changes
\* redirects.json, upload-complete.csv, the bucket or the platform; each
\* append of a dry-run adds one line to the dry-run ledger file.
C4_DryRunFrame ==
  [][((status' = "running" /\ argv'.dryrun) \/ (status = "running" /\ argv.dryrun)) =>
       /\ UNCHANGED <<redirects, completed, s3, medium>>
       /\ (pc = "redirect" /\ pc' = "complete") =>
            Len(dryFiles'.redirects) = Len(dryFiles.redirects) + 1
       /\ (pc = "complete" /\ status' = "running") =>
            dryFiles'.completed = Append(dryFiles.completed, files[idx])]_vars

\* A dry-run that follows a live run has recorded a post in its own ledger
\* files.
C4_Witness ==
  /\ status = "running" /\ argv.dryrun
  /\ completed # <<>>
  /\ Len(dryFiles.completed) > Len(completed)
  /\ Len(dryFiles.redirects) > Len(redirects)

\* C5: a post the platform holds and the completed ledger does not is among
\* the files of every live run: a post published but not recorded when a run
\* stopped is processed again by the next live run.
C5_PublishedUnrecordedIsPending ==
  (status = "running" /\ ~argv.dryrun) =>
    \A j \in 1..Len(medium) :
      ~InSeq(medium[j].title, completed) => InSeq(medium[j].title, files)

\* A live run has published again a post that an earlier run published and
\* did not record.
C5_Witness ==
  /\ status = "running" /\ ~argv.dryrun /\ runs >= 2
  /\ \E f \in Files : Len(PostsOf(f)) >= 2 /\ ~InSeq(f, completed)

\* C6 as claimed: between runs, each post of the completed ledger has exactly
\* one redirect record and no original URL has two records.
C6_ExactlyOneRedirect ==
  status # "running" =>
    /\ \A j \in 1..Len(completed) : Len(RedirectsOf(completed[j])) = 1
    /\ \A i, j \in 1..Len(redirects) :
         redirects[i].from = redirects[j].from => i = j

\* C6 as amended: each post of the completed ledger has at least one redirect
\* record, and the redirect records are, one for one and in order, those of
\* successful publish calls: each maps the original URL of a post to the URL
\* a publish of that post returned, and no publish has two records.
C6_RedirectPerPublish ==
  /\ \A j \in 1..Len(completed) : Len(RedirectsOf(completed[j])) >= 1
  /\ \A i \in 1..Len(redirects) :
       \E j \in 1..Len(medium) :
         /\ redirects[i].to = medium[j].url
         /\ redirects[i].from = OriginalUrlOf(medium[j].title)
  /\ \A i, j \in 1..Len(redirects) :
       redirects[i].to = redirects[j].to => i = j

\* A recorded post has two redirect records: it was published twice.
C6_Witness ==
  /\ status # "running"
  /\ \E j \in 1..Len(completed) : Len(RedirectsOf(completed[j])) = 2

\* C7: when live runs are started again and again and nothing fails,
\* eventually every candidate that is not unpublished is in the completed
\* ledger.
C7_EventuallyAllRecorded ==
  <>(\A f \in Files : published[f] # "false" => InSeq(f, completed))

CardImage(p) == <<"!", "[", "]", "(">> \o p.card \o <<")">>
Byline(p) == <<"B", "y", ":", " ">> \o p.author
BlankLine == <<"\n", "\n">>

\* C8 as claimed: with an author and a card image, the content before the
\* image pass begins with the card image, a blank line, the byline and a
\* blank line.
C8_CardThenByline ==
  (pc = "imagepass" /\ post.author # Undefined /\ post.card # Undefined) =>
    StartsWith(content, CardImage(post) \o BlankLine \o Byline(post) \o BlankLine)

\* C8 as amended: the content begins with the byline, a blank line, the card
\* image and a blank line; for the body Hello it is exactly that and Hello.
C8_BylineThenCard ==
  (pc = "imagepass" /\ post.author # Undefined /\ post.card # Undefined) =>
    /\ StartsWith(content, Byline(post) \o BlankLine \o CardImage(post) \o BlankLine)
    /\ post.body = Hello =>
         content = Byline(post) \o BlankLine \o CardImage(post) \o BlankLine \o Hello

\* The post of the example: author Jane, card /img/a.jpg, body Hello.
C8_Witness ==
  /\ pc = "imagepass"
  /\ post.author = Jane /\ post.card = CardUrl /\ post.body = Hello

\* C9 as claimed: each of the six stages gives the same text applied twice
\* as applied once.
C9_EveryStageIdempotent ==
  /\ moveCardImageToContent(post, moveCardImageToContent(post, content))
       = moveCardImageToContent(post, content)
  /\ handleSiteUrl(handleSiteUrl(content)) = handleSiteUrl(content)
  /\ handlePostAuthors(post, handlePostAuthors(post, content))
       = handlePostAuthors(post, content)
  /\ handleLiquidClasses(handleLiquidClasses(content)) = handleLiquidClasses(content)
  /\ handleCodeBlocks(handleCodeBlocks(content)) = handleCodeBlocks(content)
  /\ handleLineBreaks(handleLineBreaks(content)) = handleLineBreaks(content)

\* C9 as amended: code-fence conversion and newline collapse are idempotent
\* on every text; card-image promotion and the byline are idempotent exactly
\* for a post without a card image, without an author.
C9_IdempotentStages ==
  /\ handleCodeBlocks(handleCodeBlocks(content)) = handleCodeBlocks(content)
  /\ handleLineBreaks(handleLineBreaks(content)) = handleLineBreaks(content)
  /\ (moveCardImageToContent(post, moveCardImageToContent(post, content))
        = moveCardImageToContent(post, content)) <=> post.card = Undefined
  /\ (handlePostAuthors(post, handlePostAuthors(post, content))
        = handlePostAuthors(post, content)) <=> post.author = Undefined

\* A text that both the code-fence conversion and the newline collapse
\* change, of a post with a card image and an author.
C9_Witness ==
  /\ handleCodeBlocks(content) # content
  /\ handleLineBreaks(content) # content
  /\ post.card # Undefined /\ post.author # Undefined

\* C10: after the image pass the image references of the content are those
\* it had before, each uploadable one replaced by its uploaded URL, and one
\* object was put per uploadable reference.
C10_EveryReferenceReplaced ==
  pc = "images" =>
    LET refs == extractImageUrls(Transform(post)) IN
      /\ extractImageUrls(content) =
           [j \in 1..Len(refs) |->
              IF IsUploadable(refs[j]) THEN uploadImageURL(refs[j], DryRun)
              ELSE refs[j]]
      /\ ~DryRun => Len(s3) = Len(filterUploadableImages(refs))

\* The loop of main stands at a file whose post is to be loaded.
AtLoad == status = "running" /\ pc = "load" /\ idx <= Len(files)

\* C11: a step of the loop standing at a post flagged published: false
\* uploads no image, publishes nothing and appends to neither ledger, and
\* unless the process is stopped the loop stands at the next file; a step of
\* the loop standing at a post with no published flag loads that post with
\* its content transformed, and the loop leaves such a post only by recording
\* it in the completed ledger of the run, after a redirect record for it and,
\* in a live run, a post of it on the platform.
C11_SkipUnpublishedProcessUnflagged ==
  [][/\ (AtLoad /\ published[files[idx]] = "false") =>
          /\ UNCHANGED <<s3, medium, redirects, completed, dryFiles>>
          /\ status' = "running" =>
                idx' = idx + 1 /\ pc' = "load" /\ files' = files
     /\ (AtLoad /\ published[files[idx]] = "undefined"
               /\ status' = "running") =>
          /\ idx' = idx /\ pc' = "images"
          /\ post' = PostFile(files[idx], "undefined")
          /\ content' = Transform(post')
     /\ (status = "running" /\ status' = "running" /\ idx' # idx
               /\ published[files[idx]] = "undefined") =>
          /\ FileCompleted' = Append(FileCompleted, files[idx])
          /\ \E j \in 1..Len(IF DryRun THEN dryFiles.redirects
                                        ELSE redirects) :
               (IF DryRun THEN dryFiles.redirects ELSE redirects)[j].from
                 = getOriginalURL(files[idx], post)
          /\ ~DryRun => PostsOf(files[idx]) # <<>>
    ]_vars

\* A live run has skipped a post flagged published: false, leaving nothing of
\* it, and then published and recorded a later post that has no flag.
C11_Witness ==
  /\ status = "running" /\ ~DryRun
  /\ \E k, m \in 1..(idx - 1) :
       /\ k < m
       /\ published[files[k]] = "false"
       /\ PostsOf(files[k]) = <<>> /\ RedirectsOf(files[k]) = <<>>
       /\ ~InSeq(files[k], completed)
       /\ published[files[m]] = "undefined"
       /\ PostsOf(files[m]) # <<>> /\ InSeq(files[m], completed)

====
